---- MODULE Spec2Model ----
(***************************************************************************)
(* Model of downloader.py: a crawler that walks a paginated image gallery, *)
(* stores the images that pass the admission policy and follows the        *)
(* "next page" anchor until none is found or a page fetch fails.           *)
(*                                                                         *)
(* Strings are sequences of one-character strings, so that the string      *)
(* operations of the code (split, startswith, the two regular              *)
(* expressions, replace, int, str, urljoin) are computed character by      *)
(* character.  An optional value is a record [some, val].                  *)
(***************************************************************************)
EXTENDS Integers, Sequences, FiniteSets, TLC

VARIABLES
    pc,             \* position of the script: see PcValues
    argv,           \* the arguments of the command line, fixed at start
    min_size_kb,    \* the admission threshold in KB
    url,            \* download_images: the current page URL
    soup,           \* download_images: the parsed current page
    idx,            \* download_images: position of the "for img in images" loop
    output_folder,  \* download_images: the sanitized folder name
    response,       \* the last page response: [kind, status]
    dirs,           \* filesystem: the directories that exist
    disk,           \* filesystem: the files that exist
    opens,          \* filesystem: how often each path was opened for writing
    call,           \* the last download_image call and what it did
    visited,        \* the page URLs requested so far
    exit_code       \* the exit code of the process, -1 while it runs

vars == <<pc, argv, min_size_kb, url, soup, idx, output_folder, response,
          dirs, disk, opens, call, visited, exit_code>>

-----------------------------------------------------------------------------
(* Bounds of the model.                                                    *)

\* The site serves pages numbered up to MaxPageNo; a page URL whose
\* trailing _<digits>.html number is larger does not exist (status 404).
MaxPageNo == 4

-----------------------------------------------------------------------------
(* Strings.                                                                *)

Digits == <<"0", "1", "2", "3", "4", "5", "6", "7", "8", "9">>

DigitChars == {Digits[i] : i \in 1..10}

Letters == {"a", "b", "c", "d", "e", "f", "g", "h", "i", "j", "k", "l", "m",
            "n", "o", "p", "q", "r", "s", "t", "u", "v", "w", "x", "y", "z",
            "A", "B", "C", "D", "E", "F", "G", "H", "I", "J", "K", "L", "M",
            "N", "O", "P", "Q", "R", "S", "T", "U", "V", "W", "X", "Y", "Z"}

\* Two Chinese characters of a title, in simplified and traditional form.
HanSimplified == {"zh_hua_s", "zh_guo_s"}

HanTraditional == {"zh_hua_t", "zh_guo_t"}

Whitespace == {" ", "\t", "\n"}

None == [some |-> FALSE, val |-> <<>>]

Some(s) == [some |-> TRUE, val |-> s]

StartsWith(s, p) == Len(p) <= Len(s) /\ SubSeq(s, 1, Len(p)) = p

EndsWith(s, p) == Len(p) <= Len(s) /\ SubSeq(s, Len(s) - Len(p) + 1, Len(s)) = p

\* The largest index of character c in s, 0 if there is none.
LastIndexOf(s, c) ==
    LET I == {i \in 1..Len(s) : s[i] = c}
    IN  IF I = {} THEN 0 ELSE CHOOSE i \in I : \A j \in I : j <= i

\* The smallest index of character c in s, 0 if there is none.
IndexOf(s, c) ==
    LET I == {i \in 1..Len(s) : s[i] = c}
    IN  IF I = {} THEN 0 ELSE CHOOSE i \in I : \A j \in I : i <= j

\* sub in s
Contains(s, sub) ==
    \E i \in 1..(Len(s) - Len(sub) + 1) : SubSeq(s, i, i + Len(sub) - 1) = sub

\* s.replace(old, new): every non-overlapping occurrence, left to right.
RECURSIVE Replace(_, _, _)
Replace(s, old, new) ==
    IF Len(s) < Len(old) \/ old = <<>> THEN s
    ELSE IF SubSeq(s, 1, Len(old)) = old
         THEN new \o Replace(SubSeq(s, Len(old) + 1, Len(s)), old, new)
         ELSE <<Head(s)>> \o Replace(Tail(s), old, new)

\* s.strip()
RECURSIVE LStrip(_)
LStrip(s) == IF s # <<>> /\ Head(s) \in Whitespace THEN LStrip(Tail(s)) ELSE s

RECURSIVE RStrip(_)
RStrip(s) ==
    IF s # <<>> /\ s[Len(s)] \in Whitespace
    THEN RStrip(SubSeq(s, 1, Len(s) - 1)) ELSE s

Strip(s) == RStrip(LStrip(s))

DigitValue(c) == (CHOOSE i \in 1..10 : Digits[i] = c) - 1

IsDigits(s) == s # <<>> /\ \A i \in 1..Len(s) : s[i] \in DigitChars

\* int(s) for a string of decimal digits
RECURSIVE StrToInt(_)
StrToInt(s) ==
    IF s = <<>> THEN 0
    ELSE 10 * StrToInt(SubSeq(s, 1, Len(s) - 1)) + DigitValue(s[Len(s)])

\* str(n) for n >= 0
RECURSIVE IntToStr(_)
IntToStr(n) ==
    IF n < 10 THEN <<Digits[n + 1]>>
    ELSE IntToStr(n \div 10) \o <<Digits[(n % 10) + 1]>>

-----------------------------------------------------------------------------
(* URLs: urllib.parse.urljoin for the references the pages of the model    *)
(* hold: an empty reference, a reference with a scheme of its own, a       *)
(* network-path reference (//host/path), an absolute path (/path) and a    *)
(* relative path without dot segments; no query and no fragment.           *)

SchemeChars == Letters \cup DigitChars \cup {"+", "-", "."}

\* urlsplit: the reference starts with <scheme>:
HasScheme(ref) ==
    LET i == IndexOf(ref, ":")
    IN  /\ i > 1
        /\ ref[1] \in Letters
        /\ \A j \in 1..(i - 1) : ref[j] \in SchemeChars

SchemeOf(u) == SubSeq(u, 1, IndexOf(u, ":") - 1)

\* Index of the first "/" of the path of an absolute URL scheme://netloc/path,
\* 0 if the URL has no path.
PathStart(u) ==
    LET a == IndexOf(u, ":") + 3
        I == {i \in a..Len(u) : u[i] = "/"}
    IN  IF I = {} THEN 0 ELSE CHOOSE i \in I : \A j \in I : i <= j

\* scheme://netloc
Origin(u) == IF PathStart(u) = 0 THEN u ELSE SubSeq(u, 1, PathStart(u) - 1)

\* scheme://netloc/dir/ : the base URL up to the last "/" of its path
BaseDir(u) ==
    IF PathStart(u) = 0 THEN u \o <<"/">> ELSE SubSeq(u, 1, LastIndexOf(u, "/"))

urljoin(base, ref) ==
    IF ref = <<>> THEN base
    ELSE IF HasScheme(ref) THEN ref
    ELSE IF StartsWith(ref, <<"/", "/">>) THEN SchemeOf(base) \o <<":">> \o ref
    ELSE IF Head(ref) = "/" THEN Origin(base) \o ref
    ELSE BaseDir(base) \o ref

\* url.split("/")[-1]
LastSegment(u) == SubSeq(u, LastIndexOf(u, "/") + 1, Len(u))

-----------------------------------------------------------------------------
(* get_next_url                                                            *)

JsPrefix == <<"j", "a", "v", "a", "s", "c", "r", "i", "p", "t", ":",
              "C", "o", "n", "t", "e", "n", "t", "P", "a", "g", "e",
              "H", "r", "e", "f">>

PagePlaceholder == <<"[", "p", "a", "g", "e", "]">>

DotHtml == <<".", "h", "t", "m", "l">>

\* Where "$" matches: at the end of s, or before a newline that ends s.
DollarEnd(s) == IF s # <<>> /\ s[Len(s)] = "\n" THEN Len(s) - 1 ELSE Len(s)

\* re.search(r",\s*'([^']*)'\);?$", href): group 1 of the match, if any.
\* The match is anchored at "$", so its shape is fixed from the right:
\* an optional ";", then ")", the closing quote, the nearest quote before
\* it, a run of whitespace, and a comma.
TemplateMatch(href) ==
    LET e  == DollarEnd(href)
        rp == IF e > 0 /\ href[e] = ";" THEN e - 1 ELSE e
        cq == rp - 1
        Q  == {i \in 1..(cq - 1) : href[i] = "'"}
        oq == IF Q = {} THEN 0 ELSE CHOOSE i \in Q : \A j \in Q : j <= i
        K  == {i \in 1..(oq - 1) : href[i] \notin Whitespace}
        k  == IF K = {} THEN 0 ELSE CHOOSE i \in K : \A j \in K : j <= i
    IN  IF /\ cq >= 1
           /\ href[rp] = ")"
           /\ href[cq] = "'"
           /\ oq > 0
           /\ k > 0
           /\ href[k] = ","
        THEN Some(SubSeq(href, oq + 1, cq - 1))
        ELSE None

\* re.search(r"_(\d+)\.html$", current_url): group 1 of the match, if any.
PageMatch(current_url) ==
    LET e  == DollarEnd(current_url)
        s  == SubSeq(current_url, 1, e)
        d  == Len(s) - Len(DotHtml)
        N  == {i \in 1..d : s[i] \notin DigitChars}
        u  == IF N = {} THEN 0 ELSE CHOOSE i \in N : \A j \in N : j <= i
    IN  IF EndsWith(s, DotHtml) /\ u > 0 /\ u < d /\ s[u] = "_"
        THEN Some(SubSeq(s, u + 1, d))
        ELSE None

\* Lines 75-80 with 0 as the page number of a URL without a suffix.
CurrentPageDefaultZero(current_url) ==
    LET page_match == PageMatch(current_url)
    IN  IF page_match.some THEN StrToInt(page_match.val) ELSE 0

\* Lines 75-80: the page number of the current URL, 1 without a suffix.
CurrentPage(current_url) ==
    LET page_match == PageMatch(current_url)
    IN  IF page_match.some THEN StrToInt(page_match.val) ELSE 1

\* Line 82
NextPage(current_page) == current_page + 1

\* Lines 85-87 with a template without the placeholder joined as it is.
TemplatedUrlUnchecked(url_template, current_url) ==
    Some(urljoin(current_url,
                 Replace(url_template, PagePlaceholder,
                         IntToStr(NextPage(CurrentPage(current_url))))))

\* Lines 75-87
TemplatedUrl(url_template, current_url) ==
    IF Contains(url_template, PagePlaceholder)
    THEN Some(urljoin(current_url,
                      Replace(url_template, PagePlaceholder,
                              IntToStr(NextPage(CurrentPage(current_url))))))
    ELSE None

\* Line 62 with an anchor without href taken as a link to "".
LinkUsableNoHrefCheck(next_link) == next_link.found

\* Line 62
LinkUsable(next_link) == next_link.found /\ next_link.hasHref

\* soup.find('a', string=<marker>) is the field "next" of the parsed page:
\* [found, hasHref, href].
get_next_url(sp, current_url) ==
    LET next_link == sp.next
    IN  IF LinkUsable(next_link)
        THEN LET href == next_link.href
             IN  IF StartsWith(href, JsPrefix)
                 THEN LET match == TemplateMatch(href)
                      IN  IF match.some
                          THEN TemplatedUrl(match.val, current_url)
                          ELSE None
                 ELSE Some(urljoin(current_url, href))
        ELSE None

-----------------------------------------------------------------------------
(* get_page_title and the folder name                                      *)

Untitled == <<"U", "n", "t", "i", "t", "l", "e", "d">>

\* opencc s2t on one character
ConvertChar(c) ==
    IF c = "zh_hua_s" THEN "zh_hua_t"
    ELSE IF c = "zh_guo_s" THEN "zh_guo_t"
    ELSE c

\* converter.convert(s)
Convert(s) == [i \in 1..Len(s) |-> ConvertChar(s[i])]

\* soup.find('title') and soup.find('h1') are the fields "title" and "h1" of
\* the parsed page: [present, hasString, string].  A tag without text has
\* .string None, and None.strip() raises AttributeError.
get_page_title(sp) ==
    IF sp.title.present
    THEN IF sp.title.hasString
         THEN [raised |-> FALSE, val |-> Convert(Strip(sp.title.string))]
         ELSE [raised |-> TRUE, val |-> <<>>]
    ELSE IF sp.h1.present
         THEN IF sp.h1.hasString
              THEN [raised |-> FALSE, val |-> Convert(Strip(sp.h1.string))]
              ELSE [raised |-> TRUE, val |-> <<>>]
         ELSE [raised |-> FALSE, val |-> Untitled]

\* \w of the regular expression, for the characters of the model
WordChars ==
    Letters \cup DigitChars \cup {"_"} \cup HanSimplified \cup HanTraditional

\* The characters [^\w\-_\. ] does not match
FolderChars == WordChars \cup {"-", "_", ".", " "}

\* Line 109 with the characters that are not allowed deleted.
SanitizeDropping(title) ==
    LET Allowed(c) == c \in FolderChars
    IN  SelectSeq(title, Allowed)

\* re.sub(r'[^\w\-_\. ]', '_', title)
Sanitize(title) ==
    [i \in 1..Len(title) |-> IF title[i] \in FolderChars THEN title[i] ELSE "_"]

-----------------------------------------------------------------------------
(* download_image                                                          *)

KB == 1024

\* A file of the disk: [folder, name, body, complete]; body is the URL the
\* bytes came from, OldBody for a file that was there before the run.
OldBody == <<"o", "l", "d">>

File(folder, name, body, complete) ==
    [folder |-> folder, name |-> name, body |-> body, complete |-> complete]

Path(folder, name) == [folder |-> folder, name |-> name]

FileAt(dsk, folder, name) == \E f \in dsk : f.folder = folder /\ f.name = name

\* Line 21 with the existence check left out.
PathExistsNever(dsk, drs, folder, name) == FALSE

\* os.path.exists(os.path.join(folder, name)): with an empty name the path
\* is "folder/", the directory itself.
PathExists(dsk, drs, folder, name) ==
    IF name = <<>> THEN folder \in drs ELSE FileAt(dsk, folder, name)

\* Line 26 with a text that is no number read as 0.
ContentLengthLenient(header) ==
    IF header.present /\ IsDigits(header.value)
    THEN [raised |-> FALSE, val |-> StrToInt(header.value)]
    ELSE [raised |-> FALSE, val |-> 0]

\* int(img_response.headers.get('content-length', 0)): the header is
\* [present, value]; int() of a text that is no number raises ValueError.
ContentLength(header) ==
    IF ~header.present THEN [raised |-> FALSE, val |-> 0]
    ELSE IF IsDigits(header.value)
         THEN [raised |-> FALSE, val |-> StrToInt(header.value)]
         ELSE [raised |-> TRUE, val |-> 0]

\* Line 28 with ">" in place of ">=".
AdmitsStrict(size_bytes, min_kb) == size_bytes > min_kb * KB

\* Lines 26-28: size_bytes / 1024 >= min_size_kb, without the division.
Admits(size_bytes, min_kb) == size_bytes >= min_kb * KB

ErrorOutcomes == {"get_error", "parse_error", "open_error", "write_error"}

\* Line 35 catching only the errors of the request.
CaughtRequestOnly(outcome) == outcome = "get_error"

\* Line 35: "except Exception" catches every error of the call.
Caught(outcome) == TRUE

\* The record of a download_image call: its arguments, whether a file was
\* at the destination path before it, whether it issued the GET, whether it
\* opened the file, the declared size it read (sized), what the
\* content-length header of the answer held (declared) and how it ended.
NoCall == [made |-> FALSE, url |-> <<>>, folder |-> <<>>, existed |-> FALSE,
           got |-> FALSE, wrote |-> FALSE, size |-> 0, sized |-> FALSE,
           declared |-> "none", outcome |-> "none"]

Call(u, folder, existed, got, wrote, size, sized, declared, outcome) ==
    [made |-> TRUE, url |-> u, folder |-> folder, existed |-> existed,
     got |-> got, wrote |-> wrote, size |-> size, sized |-> sized,
     declared |-> declared, outcome |-> outcome]

\* What the content-length header of an answer holds.
Declared(header) ==
    IF ~header.present THEN "absent"
    ELSE IF \A i \in 1..Len(header.value) : header.value[i] \in DigitChars
         THEN "number"
         ELSE "unparsable"

\* open(img_path, 'wb') creates the file, or empties the one that is there.
OpenForWrite(dsk, folder, name, body, complete) ==
    {f \in dsk : ~(f.folder = folder /\ f.name = name)}
        \cup {File(folder, name, body, complete)}

CountOpen(ops, p) ==
    IF p \in DOMAIN ops THEN [ops EXCEPT ![p] = @ + 1] ELSE ops @@ (p :> 1)

\* download_image(url, folder, min_size_kb) against the answer r of the
\* network and the filesystem: r.get is "ok" or "error" (the GET raises),
\* r.header the content-length header, r.open_ok whether open() succeeds,
\* r.stream_ok whether every chunk is received and written.  The result is
\* the disk, the open counts and the record of the call.
download_image(u, folder, min_kb, r, dsk, drs, ops) ==
    LET img_filename == LastSegment(u)
        existed == \/ img_filename = <<>> /\ folder \in drs
                   \/ FileAt(dsk, folder, img_filename)
        Same(c) == [disk |-> dsk, opens |-> ops, call |-> c]
        decl == Declared(r.header)
    IN  IF PathExists(dsk, drs, folder, img_filename)
        THEN Same(Call(u, folder, existed, FALSE, FALSE, 0, FALSE, "none",
                       "exists"))
        ELSE IF r.get = "error"
        THEN Same(Call(u, folder, existed, TRUE, FALSE, 0, FALSE, "none",
                       "get_error"))
        ELSE LET cl == ContentLength(r.header)
             IN  IF cl.raised
                 THEN Same(Call(u, folder, existed, TRUE, FALSE, 0, FALSE,
                                decl, "parse_error"))
                 ELSE IF Admits(cl.val, min_kb)
                 THEN IF ~r.open_ok
                      THEN Same(Call(u, folder, existed, TRUE, FALSE, cl.val,
                                     TRUE, decl, "open_error"))
                      ELSE [disk |-> OpenForWrite(dsk, folder, img_filename,
                                                  u, r.stream_ok),
                            opens |-> CountOpen(ops, Path(folder, img_filename)),
                            call |-> Call(u, folder, existed, TRUE, TRUE,
                                          cl.val, TRUE, decl,
                                          IF r.stream_ok THEN "stored"
                                          ELSE "write_error")]
                 ELSE Same(Call(u, folder, existed, TRUE, FALSE, cl.val, TRUE,
                                decl, "small"))

-----------------------------------------------------------------------------
(* The site, the network and the command line the crawler runs against.    *)

Https == <<"h", "t", "t", "p", "s", ":", "/", "/">>

HttpPlain == <<"h", "t", "t", "p", ":", "/", "/">>

SiteX == Https \o <<"x">>

\* https://x/g_3.html
UrlG3 == SiteX \o <<"/", "g", "_", "3">> \o DotHtml

\* https://x/g.html
UrlG == SiteX \o <<"/", "g">> \o DotHtml

\* https://x/gallery_4.html
UrlGallery4 ==
    SiteX \o <<"/", "g", "a", "l", "l", "e", "r", "y", "_", "4">> \o DotHtml

StartUrls == {UrlG3, UrlG}

AJpg == <<"a", ".", "j", "p", "g">>

Img(src) == [hasSrc |-> TRUE, src |-> src]

ImgNoSrc == [hasSrc |-> FALSE, src |-> <<>>]

\* a.jpg
ImgRel == Img(AJpg)

\* /i/a.jpg : another URL with the same final path segment
ImgRoot == Img(<<"/", "i", "/">> \o AJpg)

\* https://y/b.jpg
ImgAbs == Img(Https \o <<"y", "/", "b", ".", "j", "p", "g">>)

\* data:x
ImgData == Img(<<"d", "a", "t", "a", ":", "x">>)

\* i/ : a URL whose final path segment is empty
ImgSlash == Img(<<"i", "/">>)

\* httpx:c : a scheme that is not http(s) and starts with "http"
ImgHttpx == Img(<<"h", "t", "t", "p", "x", ":", "c">>)

ImgLists == {<<>>, <<ImgRel, ImgAbs>>, <<ImgRoot, ImgRel>>,
             <<ImgData, ImgNoSrc, ImgHttpx>>, <<ImgSlash, Img(<<>>)>>}

Anchor(href) == [found |-> TRUE, hasHref |-> TRUE, href |-> href]

NoAnchor == [found |-> FALSE, hasHref |-> FALSE, href |-> <<>>]

AnchorNoHref == [found |-> TRUE, hasHref |-> FALSE, href |-> <<>>]

GalleryTemplate ==
    <<"g", "a", "l", "l", "e", "r", "y", "_">> \o PagePlaceholder \o DotHtml

JsCall(args) == JsPrefix \o <<"(">> \o args

\* javascript:ContentPageHref(1, 'gallery_[page].html');
JsGallery ==
    JsCall(<<"1", ",", " ", "'">> \o GalleryTemplate \o <<"'", ")", ";">>)

\* javascript:ContentPageHref(1,'gallery_[page].html')
JsGalleryBare == JsCall(<<"1", ",", "'">> \o GalleryTemplate \o <<"'", ")">>)

\* javascript:ContentPageHref(1, 'p[page].html');
JsNoSuffix ==
    JsCall(<<"1", ",", " ", "'", "p">> \o PagePlaceholder \o DotHtml
           \o <<"'", ")", ";">>)

\* javascript:ContentPageHref(1, 'gallery.html');
JsNoPlaceholder ==
    JsCall(<<"1", ",", " ", "'", "g", "a", "l", "l", "e", "r", "y">> \o DotHtml
           \o <<"'", ")", ";">>)

\* javascript:ContentPageHref(1)
JsNoArgument == JsCall(<<"1", ")">>)

\* javascript:ContentPageHref(1, 'gallery_[page].html'
JsUnclosed == JsCall(<<"1", ",", " ", "'">> \o GalleryTemplate \o <<"'">>)

\* page2.html
HrefPage2 == <<"p", "a", "g", "e", "2">> \o DotHtml

\* javascript:;
HrefScript == <<"j", "a", "v", "a", "s", "c", "r", "i", "p", "t", ":", ";">>

JsHrefs == {JsGallery, JsGalleryBare, JsNoSuffix, JsNoPlaceholder,
            JsNoArgument, JsUnclosed}

Anchors == {NoAnchor, AnchorNoHref, Anchor(HrefPage2), Anchor(HrefScript)}
               \cup {Anchor(h) : h \in JsHrefs}

Tag(string) == [present |-> TRUE, hasString |-> TRUE, string |-> string]

NoTag == [present |-> FALSE, hasString |-> FALSE, string |-> <<>>]

EmptyTag == [present |-> TRUE, hasString |-> FALSE, string |-> <<>>]

\* <title>A/B:C</title>
Head0 == [title |-> Tag(<<"A", "/", "B", ":", "C">>), h1 |-> NoTag]

\* <h1>Hd-1.x y</h1>
HeadH == [title |-> NoTag,
          h1 |-> Tag(<<"H", "d", "-", "1", ".", "x", " ", "y">>)]

Heads == {
    Head0,
    HeadH,
    [title |-> Tag(<<" ", "zh_hua_s", "?", "zh_guo_s", "\n">>),
     h1 |-> Tag(<<"H">>)],
    [title |-> NoTag, h1 |-> NoTag],
    [title |-> EmptyTag, h1 |-> NoTag],
    [title |-> NoTag, h1 |-> EmptyTag],
    [title |-> Tag(<<" ", " ">>), h1 |-> NoTag]}

Doc(head, imgs, next) ==
    [title |-> head.title, h1 |-> head.h1, imgs |-> imgs, next |-> next]

NoDoc == Doc([title |-> NoTag, h1 |-> NoTag], <<>>, NoAnchor)

\* The pages behind the first page: every image list and every anchor, and
\* a page with another title.
Docs ==
    {Doc(Head0, imgs, Anchor(JsGallery)) : imgs \in ImgLists}
        \cup {Doc(Head0, <<ImgRel, ImgAbs>>, next) : next \in Anchors}
        \cup {Doc(HeadH, <<ImgRoot, ImgRel>>, NoAnchor)}

\* The pages a start URL can hold: those, and every head.
FirstDocs ==
    Docs \cup {Doc(head, <<ImgRel, ImgAbs>>, Anchor(HrefPage2)) : head \in Heads}

NoResponse == [kind |-> "none", status |-> 0]

Transport == [kind |-> "error", status |-> 0]

Status(code) == [kind |-> "status", status |-> code]

\* The numbered pages of the site are gallery_<n>.html for the last two
\* numbers up to MaxPageNo; a numbered URL outside them does not exist.
PageExists(u) ==
    LET m == PageMatch(u)
    IN  \/ u \in StartUrls
        \/ ~m.some
        \/ StrToInt(m.val) \in (MaxPageNo - 1)..MaxPageNo

\* What requests.get(u) of a page can do: raise (always, for a URL that is
\* not http(s)), or answer with a status; 200 only for a page that exists.
PageAnswers(u) ==
    IF ~(StartsWith(u, Https) \/ StartsWith(u, HttpPlain))
    THEN {[resp |-> Transport, doc |-> NoDoc]}
    ELSE {[resp |-> Transport, doc |-> NoDoc],
          [resp |-> Status(404), doc |-> NoDoc]}
             \cup (IF PageExists(u)
                   THEN {[resp |-> Status(200), doc |-> d] :
                            d \in IF u \in StartUrls THEN FirstDocs ELSE Docs}
                   ELSE {})

Header(value) == [present |-> TRUE, value |-> value]

NoHeader == [present |-> FALSE, value |-> <<>>]

\* content-length: 25600
BigHeader == Header(<<"2", "5", "6", "0", "0">>)

Headers == {NoHeader,
            Header(<<"a", "b", "c">>),
            Header(<<"1", "0", "2", "3">>),
            Header(<<"1", "0", "2", "4">>),
            Header(<<"2", "5", "5", "9", "9">>),
            BigHeader}

\* What the GET of an image and the filesystem can do: the GET raises, or
\* answers with one of the headers; open() or the stream may fail.
ImageAnswers ==
    {[get |-> "error", header |-> NoHeader, open_ok |-> TRUE, stream_ok |-> TRUE]}
        \cup {[get |-> "ok", header |-> h, open_ok |-> TRUE, stream_ok |-> TRUE] :
                  h \in Headers}
        \cup {[get |-> "ok", header |-> BigHeader, open_ok |-> FALSE,
               stream_ok |-> TRUE],
              [get |-> "ok", header |-> BigHeader, open_ok |-> TRUE,
               stream_ok |-> FALSE]}

\* requests.get raises InvalidSchema for a URL that is not http(s).
ImageAnswersFor(u) ==
    IF StartsWith(u, Https) \/ StartsWith(u, HttpPlain)
    THEN ImageAnswers
    ELSE {a \in ImageAnswers : a.get = "error"}

\* The arguments of the command line
Argvs == {<<>>, <<UrlG3>>, <<UrlG, <<"1">>>>, <<UrlG3, <<"0">>>>,
          <<UrlG, <<"x">>>>}

FolderABC == <<"A", "_", "B", "_", "C">>

\* The filesystem before the run: empty, or the folder of an earlier run.
InitialDisks == {{}, {File(FolderABC, AJpg, OldBody, TRUE)}}

-----------------------------------------------------------------------------
(* The script.                                                             *)

DefaultMinSizeKb == 25

PcValues == {"main", "fetching_initial", "processing", "fetching_next",
             "done", "aborted", "raised", "exited"}

Terminal == {"done", "aborted", "raised", "exited"}

\* Line 158 with a text that is no number read as 0.
ParseFloatLenient(s) ==
    IF IsDigits(s) THEN [raised |-> FALSE, val |-> StrToInt(s)]
    ELSE [raised |-> FALSE, val |-> 0]

\* float(sys.argv[2]) for the arguments of the model: a string of digits
\* is its number, any other string raises ValueError.
ParseFloat(s) ==
    IF IsDigits(s) THEN [raised |-> FALSE, val |-> StrToInt(s)]
    ELSE [raised |-> TRUE, val |-> 0]

\* Line 103 with the status check left out.
InitialFetchNeverFails(resp) == FALSE

\* Line 103
InitialFetchFails(resp) == resp.status # 200

\* Line 143 with the status check left out.
NextFetchNeverFails(resp) == FALSE

\* Line 143
NextFetchFails(resp) == resp.status # 200

\* Line 130 with the folder taken from the title of the current page.
FolderArgOfPage(folder, sp) == Sanitize(get_page_title(sp).val)

\* Line 130: the folder handed to download_image.
FolderArg(folder, sp) == folder

\* Line 125 with the loop left one image early.
LoopEndedEarly(i, images) == i >= Len(images)

\* Line 125: "for img in images" has gone through every image.
LoopEnded(i, images) == i > Len(images)

\* Line 129: img_url.startswith('http')
Http == <<"h", "t", "t", "p">>

Init ==
    /\ pc = "main"
    /\ argv \in Argvs
    /\ min_size_kb = DefaultMinSizeKb
    /\ url = <<>>
    /\ soup = NoDoc
    /\ idx = 1
    /\ output_folder = <<>>
    /\ response = NoResponse
    /\ disk \in InitialDisks
    /\ dirs = {f.folder : f \in disk}
    /\ opens = << >>
    /\ call = NoCall
    /\ visited = {}
    /\ exit_code = -1

\* An uncaught exception: the interpreter prints the traceback and exits
\* with code 1.
Raise ==
    /\ pc' = "raised"
    /\ exit_code' = 1

\* Lines 149-164
Main ==
    /\ pc = "main"
    /\ IF Len(argv) < 1
       THEN /\ pc' = "exited"
            /\ exit_code' = 1
            /\ UNCHANGED min_size_kb
       ELSE IF Len(argv) > 1
       THEN LET parsed == ParseFloat(argv[2])
            IN  IF parsed.raised
                THEN /\ pc' = "exited"
                     /\ exit_code' = 1
                     /\ UNCHANGED min_size_kb
                ELSE /\ pc' = "fetching_initial"
                     /\ min_size_kb' = parsed.val
                     /\ UNCHANGED exit_code
       ELSE /\ pc' = "fetching_initial"
            /\ UNCHANGED <<min_size_kb, exit_code>>
    /\ UNCHANGED <<argv, url, soup, idx, output_folder, response, dirs, disk,
                   opens, call, visited>>

\* Lines 101-116: the first page, the title and the folder.
FetchInitial ==
    /\ pc = "fetching_initial"
    /\ \E a \in PageAnswers(argv[1]) :
          /\ response' = a.resp
          /\ IF a.resp.kind = "error"
             THEN /\ Raise
                  /\ UNCHANGED <<url, soup, idx, output_folder, dirs>>
             ELSE IF InitialFetchFails(a.resp)
             THEN /\ pc' = "aborted"
                  /\ exit_code' = 0
                  /\ UNCHANGED <<url, soup, idx, output_folder, dirs>>
             ELSE LET title == get_page_title(a.doc)
                      folder == Sanitize(title.val)
                  IN  /\ soup' = a.doc
                      /\ IF title.raised
                         THEN /\ Raise
                              /\ UNCHANGED <<url, idx, output_folder, dirs>>
                         ELSE /\ output_folder' = folder
                              /\ IF folder \in dirs
                                 THEN /\ pc' = "processing"
                                      /\ url' = argv[1]
                                      /\ idx' = 1
                                      /\ UNCHANGED <<dirs, exit_code>>
                                 ELSE IF folder = <<>>
                                 THEN \* os.makedirs('') raises FileNotFoundError
                                      /\ Raise
                                      /\ UNCHANGED <<url, idx, dirs>>
                                 ELSE /\ dirs' = dirs \cup {folder}
                                      /\ pc' = "processing"
                                      /\ url' = argv[1]
                                      /\ idx' = 1
                                      /\ UNCHANGED exit_code
    /\ visited' = visited \cup {argv[1]}
    /\ UNCHANGED <<argv, min_size_kb, disk, opens, call>>

\* Lines 125-130: one turn of "for img in images".
AdmitImage ==
    /\ pc = "processing"
    /\ idx <= Len(soup.imgs)
    /\ idx' = idx + 1
    /\ LET img == soup.imgs[idx]
           img_url == urljoin(url, img.src)
       IN  IF img.hasSrc /\ img.src # <<>> /\ StartsWith(img_url, Http)
           THEN \E r \in ImageAnswersFor(img_url) :
                   LET res == download_image(img_url,
                                             FolderArg(output_folder, soup),
                                             min_size_kb, r, disk, dirs, opens)
                   IN  /\ disk' = res.disk
                       /\ opens' = res.opens
                       /\ call' = res.call
                       /\ IF res.call.outcome \in ErrorOutcomes
                             /\ ~Caught(res.call.outcome)
                          THEN Raise
                          ELSE UNCHANGED <<pc, exit_code>>
           ELSE UNCHANGED <<disk, opens, call, pc, exit_code>>
    /\ UNCHANGED <<argv, min_size_kb, url, soup, output_folder, response, dirs,
                   visited>>

\* Lines 133-139: after the last image, the next page or the end.
ResolveNext ==
    /\ pc = "processing"
    /\ LoopEnded(idx, soup.imgs)
    /\ LET next_url == get_next_url(soup, url)
       IN  IF ~next_url.some \/ next_url.val = <<>>
           THEN /\ pc' = "done"
                /\ exit_code' = 0
                /\ UNCHANGED url
           ELSE /\ pc' = "fetching_next"
                /\ url' = next_url.val
                /\ UNCHANGED exit_code
    /\ UNCHANGED <<argv, min_size_kb, soup, idx, output_folder, response, dirs,
                   disk, opens, call, visited>>

\* Lines 142-147
FetchNext ==
    /\ pc = "fetching_next"
    /\ \E a \in PageAnswers(url) :
          /\ response' = a.resp
          /\ IF a.resp.kind = "error"
             THEN /\ Raise
                  /\ UNCHANGED <<soup, idx>>
             ELSE IF NextFetchFails(a.resp)
             THEN /\ pc' = "aborted"
                  /\ exit_code' = 0
                  /\ UNCHANGED <<soup, idx>>
             ELSE /\ pc' = "processing"
                  /\ soup' = a.doc
                  /\ idx' = 1
                  /\ UNCHANGED exit_code
    /\ visited' = visited \cup {url}
    /\ UNCHANGED <<argv, min_size_kb, url, output_folder, dirs, disk, opens,
                   call>>

Next == Main \/ FetchInitial \/ AdmitImage \/ ResolveNext \/ FetchNext

Spec == Init /\ [][Next]_vars

\* The position of the script: the program counter and the loop position.
\* Every step of Next moves it.
Position == <<pc, idx>>

\* A step of a script that has not ended.
Running ==
    /\ pc \notin Terminal
    /\ pc' \in PcValues
    /\ idx' \in {1, idx, idx + 1}

\* The interpreter keeps running the script and every request returns:
\* while the script has not ended, its position eventually moves.
FairSpec == Init /\ [][Next]_vars /\ WF_Position(Running)

-----------------------------------------------------------------------------
(* Properties.                                                             *)

TypeOK ==
    /\ pc \in PcValues
    /\ argv \in Argvs
    /\ min_size_kb \in Nat
    /\ idx \in 1..(Len(soup.imgs) + 1)
    /\ response.kind \in {"none", "error", "status"}
    /\ exit_code \in {-1, 0, 1}
    /\ (exit_code = -1) = (pc \notin Terminal)

\* The destination path of the last download_image call
CallPath == Path(call.folder, LastSegment(call.url))

\* C1: across one crawl run each destination path is opened for writing at
\* most once, no file that exists is ever deleted or overwritten, and a
\* download_image call for a URL whose destination path already exists
\* issues no image GET and performs no write.
C1_WrittenAtMostOnce ==
    /\ [](\A p \in DOMAIN opens : opens[p] <= 1)
    /\ [](call.made /\ call.existed =>
              call.outcome = "exists" /\ ~call.got /\ ~call.wrote)
    /\ [][disk \subseteq disk']_vars

\* A call that found the file an earlier call of this run had written.
C1_Witness ==
    /\ call.made
    /\ call.outcome = "exists"
    /\ CallPath \in DOMAIN opens
    /\ \E f \in disk : Path(f.folder, f.name) = CallPath /\ f.body # OldBody

\* C2: for an image whose destination file does not exist, whose GET
\* succeeds and declares a size, and whose open() does not fail,
\* download_image creates the destination file if and only if the declared
\* content-length / 1024 >= min_size_kb; when it is rejected there is no
\* file at the destination path.
C2_ThresholdInclusive ==
    call.made /\ call.sized /\ call.outcome # "open_error" =>
        /\ call.wrote = (call.size >= min_size_kb * 1024)
        /\ call.wrote = (\E f \in disk : /\ Path(f.folder, f.name) = CallPath
                                         /\ f.body = call.url)
        /\ ~call.wrote => ~FileAt(disk, call.folder, LastSegment(call.url))

\* A declared size exactly at the threshold was stored.
C2_Witness ==
    /\ call.made
    /\ call.sized
    /\ min_size_kb > 0
    /\ call.size = min_size_kb * 1024
    /\ call.outcome = "stored"
    /\ FileAt(disk, call.folder, LastSegment(call.url))

\* A declared size one byte below the threshold was not stored.
C2_WitnessBelow ==
    /\ call.made
    /\ call.sized
    /\ call.size = min_size_kb * 1024 - 1
    /\ call.outcome = "small"
    /\ ~FileAt(disk, call.folder, LastSegment(call.url))

\* C3: a failure inside the admission of one image (GET error,
\* content-length parse error, open or write error) never propagates: the
\* turn of the loop for any image leaves the crawl in the loop at the next
\* image of the same page, with the page, the URL, the folder and the exit
\* code unchanged, and the file system as it was unless the file had been
\* opened.
C3_ImageErrorsCaught ==
    [][pc = "processing" /\ idx <= Len(soup.imgs) =>
          /\ pc' = "processing"
          /\ idx' = idx + 1
          /\ exit_code' = exit_code
          /\ UNCHANGED <<url, soup, output_folder, response, dirs>>
          /\ (call'.outcome \in {"get_error", "parse_error", "open_error"}
                 => disk' = disk)]_vars

\* The first image of a page failed and the loop stands at the second.
C3_Witness ==
    /\ pc = "processing"
    /\ idx = 2
    /\ Len(soup.imgs) = 2
    /\ call.made
    /\ call.url = urljoin(url, soup.imgs[1].src)
    /\ call.outcome = "parse_error"

\* C4: when the fetch of a resolved next-page URL returns a status other
\* than 200 the crawl is in its terminal Aborted state: the step that gets
\* the answer leaves the page, the loop position, the files and the last
\* call as they were, and no step follows.
C4_NextFetchFailureAborts ==
    /\ [](url # <<>> /\ response.kind = "status" /\ response.status # 200
              => pc = "aborted" /\ exit_code = 0)
    /\ [][pc = "fetching_next" /\ response'.kind = "status"
             /\ response'.status # 200
          => /\ pc' = "aborted"
             /\ UNCHANGED <<url, soup, idx, output_folder, dirs, disk, opens,
                            call>>]_vars
    /\ [][pc # "aborted"]_vars

\* A later page failed after files had been written.
C4_Witness ==
    /\ pc = "aborted"
    /\ url # <<>>
    /\ response.status = 404
    /\ \E f \in disk : f.body # OldBody

\* C5: a transport failure on any page fetch ends the crawl in Aborted with
\* a normal exit.
C5_TransportFailureAborts ==
    response.kind = "error" => pc = "aborted" /\ exit_code = 0

\* C6: if the initial page fetch returns a status other than 200 the crawl
\* aborts with no side effects: no folder is created, no title resolved, no
\* image requested and no file written.
C6_InitialFailureNoEffects ==
    /\ [](url = <<>> /\ response.kind = "status" /\ response.status # 200 =>
              /\ pc = "aborted"
              /\ exit_code = 0
              /\ output_folder = <<>>
              /\ soup = NoDoc
              /\ ~call.made
              /\ opens = << >>
              /\ disk \in InitialDisks
              /\ dirs = {f.folder : f \in disk})
    /\ [][pc = "fetching_initial" /\ response'.kind = "status"
              /\ response'.status # 200
          => /\ pc' = "aborted"
             /\ UNCHANGED <<url, soup, idx, output_folder, dirs, disk, opens,
                            call>>]_vars

C6_Witness ==
    /\ pc = "aborted"
    /\ url = <<>>
    /\ response = Status(404)

\* The page has no next-page anchor, or the anchor has no href.
NoNextLink == ~soup.next.found \/ ~soup.next.hasHref

\* C7: if the current page has no next-page anchor, or the anchor has no
\* href, get_next_url returns None and the loop, after the images of the
\* page, reaches Done without error and without another page fetch.
C7_NoLinkEndsInDone ==
    /\ [](pc = "processing" /\ NoNextLink => get_next_url(soup, url) = None)
    /\ [][pc = "processing" /\ NoNextLink =>
             /\ UNCHANGED <<url, soup, response>>
             /\ IF idx <= Len(soup.imgs)
                THEN pc' = "processing"
                ELSE pc' = "done" /\ exit_code' = 0]_vars
    /\ [][pc # "done"]_vars

C7_Witness ==
    /\ pc = "done"
    /\ soup.next.found
    /\ ~soup.next.hasHref
    /\ idx = Len(soup.imgs) + 1
    /\ call.made

\* The page number the trailing _<digits>.html of u spells, 1 without one.
SuffixNumber(u) ==
    LET N == {n \in 0..(MaxPageNo + 2) :
                 EndsWith(u, <<"_">> \o IntToStr(n) \o DotHtml)}
    IN  IF N = {} THEN 1 ELSE CHOOSE n \in N : TRUE

\* The text before the placeholder in the templates of the site's
\* script-call anchors.
TemplateStem(next_link) ==
    IF next_link.href = JsNoSuffix THEN <<"p">>
    ELSE <<"g", "a", "l", "l", "e", "r", "y", "_">>

\* https://x/gallery_2.html
UrlGallery2 ==
    SiteX \o <<"/", "g", "a", "l", "l", "e", "r", "y", "_", "2">> \o DotHtml

\* C8: in the templated case with a template that holds [page],
\* get_next_url returns the template with [page] replaced by the decimal
\* string of n + 1, resolved against current_url, n being the number in the
\* trailing _<digits>.html of current_url, or 1 without such a suffix:
\* https://x/g_3.html and gallery_[page].html give https://x/gallery_4.html.
C8_TemplatedNextUrl ==
    pc = "processing"
        /\ soup.next \in {Anchor(JsGallery), Anchor(JsGalleryBare),
                          Anchor(JsNoSuffix)}
    => /\ get_next_url(soup, url) =
              Some(SiteX \o <<"/">> \o TemplateStem(soup.next)
                       \o IntToStr(SuffixNumber(url) + 1) \o DotHtml)
       /\ (url = UrlG3 /\ soup.next = Anchor(JsGallery)
              => get_next_url(soup, url) = Some(UrlGallery4))
       /\ (url = UrlG /\ soup.next = Anchor(JsGalleryBare)
              => get_next_url(soup, url) = Some(UrlGallery2))

\* The crawl went from https://x/g_3.html to https://x/gallery_4.html.
C8_Witness ==
    /\ pc = "fetching_next"
    /\ argv[1] = UrlG3
    /\ soup.next = Anchor(JsGallery)
    /\ url = UrlGallery4

\* href ends with: a comma, whitespace, a quoted text t without quote, ")"
\* and an optional ";" (and an optional final newline).
EndsWithQuotedArgument(href, t) ==
    \E ws \in {<<>>, <<" ">>, <<" ", " ">>, <<"\t">>},
       semi \in {<<>>, <<";">>},
       nl \in {<<>>, <<"\n">>} :
        /\ \A i \in 1..Len(t) : t[i] # "'"
        /\ EndsWith(href, <<",">> \o ws \o <<"'">> \o t \o <<"'", ")">>
                              \o semi \o nl)

\* The texts between two quotes of href
QuotedParts(href) ==
    LET Q == {i \in 1..Len(href) : href[i] = "'"}
    IN  {SubSeq(href, a + 1, b - 1) : a \in Q, b \in Q}

\* The script-call href has no trailing quoted argument with the placeholder.
TemplateParseFails(href) ==
    /\ StartsWith(href, JsPrefix)
    /\ ~\E t \in QuotedParts(href) :
            EndsWithQuotedArgument(href, t) /\ Contains(t, PagePlaceholder)

\* C9: for a script-call next-page href whose trailing quoted argument does
\* not match, or whose template lacks [page], get_next_url returns None
\* without raising, and the crawl ends in Done with a normal exit.
C9_TemplateFailureIsNone ==
    /\ [](pc = "processing" /\ soup.next.found /\ soup.next.hasHref
              /\ TemplateParseFails(soup.next.href)
          => get_next_url(soup, url) = None)
    /\ [][pc = "processing" /\ idx > Len(soup.imgs) /\ soup.next.found
              /\ soup.next.hasHref /\ TemplateParseFails(soup.next.href)
          => pc' = "done" /\ exit_code' = 0 /\ UNCHANGED <<url, response>>]_vars

C9_Witness ==
    /\ pc = "done"
    /\ exit_code = 0
    /\ soup.next = Anchor(JsNoPlaceholder)

\* The folder name of each title the site's first page can have.
FolderOfHead(sp) ==
    IF sp.title = Head0.title THEN FolderABC
    ELSE IF sp.title.present THEN <<"zh_hua_t", "_", "zh_guo_t">>
    ELSE IF sp.h1.present THEN <<"H", "d", "-", "1", ".", "x", " ", "y">>
    ELSE Untitled

\* C10: the output folder is computed once, from the first page's title,
\* before any image is admitted, and never changes afterwards: every
\* download_image call receives that folder, on every page.
C10_FolderFixed ==
    /\ [](pc \in {"main", "fetching_initial"} => ~call.made)
    /\ [](call.made => call.folder = output_folder)
    /\ [][pc = "fetching_initial" /\ pc' = "processing"
          => output_folder' = FolderOfHead(soup')]_vars
    /\ [][pc \notin {"main", "fetching_initial"}
          => output_folder' = output_folder]_vars

\* An image of a later page with another title went to the first folder.
C10_Witness ==
    /\ pc = "processing"
    /\ url # argv[1]
    /\ soup = Doc(HeadH, <<ImgRoot, ImgRel>>, NoAnchor)
    /\ idx = 2
    /\ call.made
    /\ call.url = urljoin(url, ImgRoot.src)
    /\ call.folder = FolderABC
    /\ output_folder = FolderABC


\* C11: the crawl is strictly sequential per page.  A download_image call
\* happens only in a turn of the image loop, for the image at the loop
\* position resolved against the URL of the page it was found on, and the
\* loop goes through the images one by one in document order.  The
\* next-page resolution happens only after the last image of the page, on
\* that page, and a page is replaced only by the answer to a page fetch, on
\* which the loop starts at the first image and no image is admitted.  The
\* page being processed is a page the current URL served.
C11_SequentialPerPage ==
    /\ [][call' # call =>
             /\ pc = "processing"
             /\ idx <= Len(soup.imgs)
             /\ call'.made
             /\ call'.url = urljoin(url, soup.imgs[idx].src)
             /\ UNCHANGED <<url, soup>>]_vars
    /\ [][idx' # idx =>
             \/ /\ pc = "processing"
                /\ idx <= Len(soup.imgs)
                /\ idx' = idx + 1
                /\ UNCHANGED <<url, soup>>
             \/ /\ pc \in {"fetching_initial", "fetching_next"}
                /\ idx' = 1]_vars
    /\ [][pc' # pc /\ pc' \in {"fetching_next", "done"} =>
             /\ pc = "processing"
             /\ idx = Len(soup.imgs) + 1
             /\ UNCHANGED <<soup, idx, call, disk>>
             /\ (pc' = "fetching_next" =>
                    url' = get_next_url(soup, url).val)]_vars
    /\ [][soup' # soup \/ pc = "fetching_next" =>
             /\ pc \in {"fetching_initial", "fetching_next"}
             /\ pc = "fetching_next" => url' = url
             /\ pc' = "processing" => idx' = 1
             /\ UNCHANGED <<call, disk, opens>>]_vars
    /\ [](pc = "processing" =>
             \E a \in PageAnswers(url) : a.resp = Status(200) /\ a.doc = soup)

\* On a later page, the loop has gone through both images and the last call
\* was for the second one, resolved against the URL of that page.
C11_Witness ==
    /\ pc = "processing"
    /\ url # argv[1]
    /\ Len(soup.imgs) = 2
    /\ idx = 3
    /\ call.made
    /\ call.url = urljoin(url, soup.imgs[2].src)
    /\ Cardinality(visited) = 2

\* The page has no title text and no h1: the title element is empty or
\* missing.
NoTitleNoH1(sp) == ~sp.title.hasString /\ ~sp.h1.present

\* C12: get_page_title never fails, and a first page whose title element is
\* empty or missing and which has no h1 gives the folder Untitled.
C12_TitleNeverFails ==
    Cardinality(visited) = 1 /\ response = Status(200) =>
        /\ ~get_page_title(soup).raised
        /\ (NoTitleNoH1(soup) => pc # "raised" /\ output_folder = Untitled)

\* C13: every image URL passed to download_image has the scheme http or
\* https.
C13_OnlyHttpSchemes ==
    call.made => SchemeOf(call.url) \in {Http, Http \o <<"s">>}


\* C14: the folder name is the title mapped character by character: a word
\* character, "-", "_", "." or a space is kept and any other character is
\* replaced by "_"; the result has the length of the title, holds only
\* permitted characters and is unchanged by a second sanitization; A/B:C
\* becomes A_B_C.
C14_SanitizeCharByChar ==
    [][pc = "fetching_initial" /\ pc' = "processing" =>
          LET title == get_page_title(soup').val
              folder == output_folder'
          IN  /\ Len(folder) = Len(title)
              /\ \A i \in 1..Len(title) :
                    IF \/ title[i] \in WordChars
                       \/ title[i] \in {"-", "_", ".", " "}
                    THEN folder[i] = title[i]
                    ELSE folder[i] = "_"
              /\ \A i \in 1..Len(folder) : folder[i] \in FolderChars
              /\ Sanitize(folder) = folder
              /\ (title = <<"A", "/", "B", ":", "C">> =>
                     folder = <<"A", "_", "B", "_", "C">>)]_vars

\* The first page had the title A/B:C and the folder is A_B_C.
C14_Witness ==
    /\ pc = "processing"
    /\ url = argv[1]
    /\ idx = 1
    /\ soup.title = Tag(<<"A", "/", "B", ":", "C">>)
    /\ output_folder = <<"A", "_", "B", "_", "C">>

\* START_URL is missing, or MIN_SIZE_KB is given and is no number.
BadArguments ==
    \/ Len(argv) = 0
    \/ /\ Len(argv) > 1
       /\ \/ argv[2] = <<>>
          \/ \E i \in 1..Len(argv[2]) : argv[2][i] \notin DigitChars

\* C15: with START_URL missing or MIN_SIZE_KB not a number the process
\* exits with code 1 and download_images is never called: no page is
\* requested, no image admitted and nothing written.
C15_BadArgumentsExit ==
    /\ [](BadArguments =>
              /\ pc \in {"main", "exited"}
              /\ pc = "exited" => exit_code = 1
              /\ response = NoResponse
              /\ visited = {}
              /\ url = <<>>
              /\ ~call.made
              /\ opens = << >>
              /\ disk \in InitialDisks
              /\ dirs = {f.folder : f \in disk})
    /\ [][pc = "main" /\ BadArguments => pc' = "exited"]_vars
    /\ [][pc # "exited"]_vars

\* The run with a MIN_SIZE_KB that is no number has exited.
C15_Witness ==
    /\ pc = "exited"
    /\ exit_code = 1
    /\ Len(argv) = 2
    /\ response = NoResponse

\* C16: run without MIN_SIZE_KB, the script skips every image smaller than
\* 50KB: a file is written only for a declared size of 50KB or more.
C16_DefaultSkipsBelow50KB ==
    Len(argv) = 1 /\ call.made /\ call.wrote => call.size >= 50 * KB

\* The page holds two images that both pass the filter of lines 127 and
\* 129, with distinct URLs and the same final path segment.
TwoUrlsOneName ==
    /\ Len(soup.imgs) = 2
    /\ \A i \in 1..2 :
          /\ soup.imgs[i].hasSrc
          /\ soup.imgs[i].src # <<>>
          /\ StartsWith(urljoin(url, soup.imgs[i].src), Http)
    /\ urljoin(url, soup.imgs[1].src) # urljoin(url, soup.imgs[2].src)
    /\ LastSegment(urljoin(url, soup.imgs[1].src))
           = LastSegment(urljoin(url, soup.imgs[2].src))

\* C17 as stated: of two distinct image URLs with the same final path
\* segment the later one is skipped as already existing, with no GET and no
\* write, and the file on disk is the one from the earlier URL.
C17_LaterAlwaysSkipped ==
    pc = "processing" /\ idx = 3 /\ TwoUrlsOneName =>
        /\ call.outcome = "exists"
        /\ ~call.got
        /\ ~call.wrote
        /\ \E f \in disk :
              /\ Path(f.folder, f.name) = CallPath
              /\ f.body = urljoin(url, soup.imgs[1].src)

\* C17, amended: the later URL is skipped as already existing, with no GET
\* and no write and the disk left as it is, exactly when a file is at the
\* shared destination path when its turn comes; otherwise it is requested.
\* When the earlier URL is written, the file at the path is the one from
\* the earlier URL, and the skip of the later one leaves it there.
C17_LaterSkippedIfFilePresent ==
    /\ [][pc = "processing" /\ idx = 2 /\ TwoUrlsOneName =>
             /\ call'.url = urljoin(url, soup.imgs[2].src)
             /\ IF FileAt(disk, FolderArg(output_folder, soup),
                          LastSegment(urljoin(url, soup.imgs[2].src)))
                THEN /\ call'.outcome = "exists"
                     /\ ~call'.got
                     /\ ~call'.wrote
                     /\ UNCHANGED <<disk, opens>>
                ELSE call'.got]_vars
    /\ [][pc = "processing" /\ idx = 1 /\ TwoUrlsOneName
              /\ call'.made /\ call'.wrote =>
             \E f \in disk' :
                /\ f.folder = FolderArg(output_folder, soup)
                /\ f.name = LastSegment(urljoin(url, soup.imgs[2].src))
                /\ f.body = urljoin(url, soup.imgs[1].src)]_vars

\* The later of the two was skipped and the file is the earlier one's.
C17_Witness ==
    /\ pc = "processing"
    /\ idx = 3
    /\ TwoUrlsOneName
    /\ call.url = urljoin(url, soup.imgs[2].src)
    /\ call.outcome = "exists"
    /\ \E f \in disk :
          /\ Path(f.folder, f.name) = CallPath
          /\ f.body = urljoin(url, soup.imgs[1].src)
          /\ f.complete

\* C18 as stated: an absent content-length and an unparsable one are both
\* a declared size of 0, so the file is written exactly when 0 KB reaches
\* min_size_kb.
C18_UnparsableIsZero ==
    call.declared \in {"absent", "unparsable"} /\ call.outcome # "open_error"
        => call.wrote = (0 >= min_size_kb * KB)

\* C18, amended: an absent content-length is a declared size of 0, and the
\* file is written exactly when min_size_kb is 0 or below; an unparsable
\* one makes the admission fail with no declared size and no file, for
\* every min_size_kb.  The two agree when min_size_kb is above 0.
C18_AbsentIsZeroUnparsableFails ==
    /\ call.declared = "absent" =>
          /\ call.sized
          /\ call.size = 0
          /\ call.outcome # "open_error" => call.wrote = (min_size_kb <= 0)
    /\ call.declared = "unparsable" =>
          /\ call.outcome = "parse_error"
          /\ ~call.sized
          /\ ~call.wrote
    /\ call.declared \in {"absent", "unparsable"} /\ min_size_kb > 0 =>
          ~call.wrote

\* An unparsable content-length under the threshold 0.
C18_Witness ==
    /\ call.made
    /\ call.declared = "unparsable"
    /\ call.outcome = "parse_error"
    /\ min_size_kb = 0

\* C19: every request returning, the crawl always eventually ends, in Done
\* or Aborted or otherwise.
C19_CrawlTerminates == <>(pc \in Terminal)

\* C20: every file this crawl has written holds the complete body of its
\* image response.
C20_WrittenFilesComplete ==
    \A f \in disk : f.body # OldBody => f.complete

====
